---- MODULE Spec2Model ----
(***************************************************************************)
(* Model of the simonGame engine closure of src/simon.js (lines 39-194).   *)
(*                                                                         *)
(* The engine's data (state, round, pressN, strict, sequence) are the      *)
(* variables.  Every function of the closure is an operator from an engine *)
(* record to the engine record it leaves behind, so that start(), which    *)
(* calls reset() and then nextRound(), is one atomic step.  Every method   *)
(* of the returned object is one action.                                   *)
(*                                                                         *)
(* The second half models SimonController (lines 239-449), the driver that *)
(* calls the engine from user events and from $timeout callbacks.  Its     *)
(* functions are operators on a controller record; every user entry point  *)
(* and every kind of callback is one action.  The delays of the callbacks  *)
(* are not modelled: any pending callback may fire next, which includes    *)
(* every order the delays allow.  The buttons' lit flags and the sounds    *)
(* are rendering and are left out; the calls of light() are logged.        *)
(***************************************************************************)
EXTENDS Integers, Sequences, FiniteSets, TLC

VARIABLES
    state,      \* gameState.state
    round,      \* simonGame.round
    pressN,     \* simonGame.pressN
    strict,     \* simonGame.strict
    sequence,   \* simonGame.sequence (1-indexed here, 0-indexed in the code)
    op,         \* the last method called on simonGame and its argument
    ret,        \* what that call returned: <<b>> for press, <<>> otherwise
    run,        \* n >= 0: the calls so far were start() in powerOff and then
                \* n times nextRound() with nothing in between; -1 otherwise
    timeoutStack,   \* SimonController: the callbacks scheduled by timeout()
                    \* that have neither fired nor been cancelled, as a
                    \* set (equal pending callbacks are one element)
    comTimeoutMS,   \* CONFIG.comTimeoutMS (null is 0)
    lights,         \* the buttons lit since the UI was last reset, in order;
                    \* kept only while the engine is in comDemo
    strictAtMistake,\* while in mistake: the strict flag when the wrong press
                    \* was registered
    ev              \* the last controller event: a user call or a callback

engineVars == <<state, round, pressN, strict, sequence, op, ret, run>>

ctrlVars == <<timeoutStack, comTimeoutMS, lights, strictAtMistake, ev>>

vars == <<state, round, pressN, strict, sequence, op, ret, run,
          timeoutStack, comTimeoutMS, lights, strictAtMistake, ev>>

----------------------------------------------------------------------------
(* gameState.states *)
powerOff       == 0
powerOn        == 1
start_         == 2
addRandom      == 3
comDemo        == 4
playerSequence == 5
mistake        == 6
allCorrect     == 7
win            == 8

MAXROUND == 20

(* Bounds of the model. *)
\* The first RandLen elements of a sequence take every value Math.random can
\* produce; a later element (position p, 0-indexed) is p % 4.
RandLen == 1
\* setState is called with every integer of -SetStateSlack .. win + SetStateSlack
SetStateSlack == 1

\* Button indices the UI passes to press
Buttons == 0..3

\* Values of Math.floor(Math.random() * 3.99): Math.random() is in [0, 1), so
\* the product is in [0, 3.99) and its floor is one of 0, 1, 2, 3.
RandomValues(seq) ==
    IF Len(seq) < RandLen THEN 0..3 ELSE {Len(seq) % 4}

SetStateArgs == (0 - SetStateSlack)..(win + SetStateSlack)

\* The engine's data as one record
Game ==
    [state |-> state, round |-> round, pressN |-> pressN,
     strict |-> strict, sequence |-> sequence]

----------------------------------------------------------------------------
\* the lower end of the range is not tested
setState_NoLowerBound(g, n) ==
    IF n <= win THEN [g EXCEPT !.state = n] ELSE g

(* gameState.setState(n) *)
setState(g, n) ==
    IF n >= 0 /\ n <= win THEN [g EXCEPT !.state = n] ELSE g

(* Variants of nextRound() with one slip each *)
\* the round is counted but no element is pushed
nextRound_NoPush(g, rnd) ==
    LET g1 == [g EXCEPT !.pressN = 0]
    IN  IF g1.round + 1 > MAXROUND
        THEN setState(g1, win)
        ELSE setState([g1 EXCEPT !.round = g1.round + 1], comDemo)

\* the limit is tested as round > MAXROUND
nextRound_OffByOne(g, rnd) ==
    LET g1 == [g EXCEPT !.pressN = 0]
    IN  IF g1.round > MAXROUND
        THEN setState(g1, win)
        ELSE setState([g1 EXCEPT !.round = g1.round + 1,
                                 !.sequence = Append(g1.sequence, rnd)],
                      comDemo)

\* the limit is tested as round + 1 >= MAXROUND
nextRound_EarlyWin(g, rnd) ==
    LET g1 == [g EXCEPT !.pressN = 0]
    IN  IF g1.round + 1 >= MAXROUND
        THEN setState(g1, win)
        ELSE setState([g1 EXCEPT !.round = g1.round + 1,
                                 !.sequence = Append(g1.sequence, rnd)],
                      comDemo)

\* the new element is put in front of the sequence
nextRound_Prepend(g, rnd) ==
    LET g1 == [g EXCEPT !.pressN = 0]
    IN  IF g1.round + 1 > MAXROUND
        THEN setState(g1, win)
        ELSE setState([g1 EXCEPT !.round = g1.round + 1,
                                 !.sequence = <<rnd>> \o g1.sequence],
                      comDemo)

(* nextRound(); rnd is the value Math.floor(Math.random() * 3.99) yields *)
nextRound(g, rnd) ==
    LET g1 == [g EXCEPT !.pressN = 0]
    IN  IF g1.round + 1 > MAXROUND
        THEN setState(g1, win)
        ELSE setState([g1 EXCEPT !.round = g1.round + 1,
                                 !.sequence = Append(g1.sequence, rnd)],
                      comDemo)

(* Variants of press(btnI) with one slip each *)
\* only powerOff rejects a press
press_GuardPowerOnly(g, btnI) ==
    LET s  == g.state
        g1 == [g EXCEPT !.pressN = g.pressN + 1]
        differs == IF g1.pressN - 1 < Len(g1.sequence)
                   THEN btnI # g1.sequence[g1.pressN]
                   ELSE TRUE
    IN  IF s = powerOff
        THEN [g |-> g, ret |-> FALSE]
        ELSE IF s # playerSequence
        THEN [g |-> g, ret |-> TRUE]
        ELSE IF differs
        THEN [g |-> setState([g1 EXCEPT !.pressN = 0], mistake), ret |-> TRUE]
        ELSE IF g1.pressN = Len(g1.sequence)
        THEN [g |-> setState(g1, allCorrect), ret |-> TRUE]
        ELSE [g |-> g1, ret |-> TRUE]

\* the press is counted before the test-press return
press_CountsTestPress(g, btnI) ==
    LET s  == g.state
        g1 == [g EXCEPT !.pressN = g.pressN + 1]
        differs == IF g1.pressN - 1 < Len(g1.sequence)
                   THEN btnI # g1.sequence[g1.pressN]
                   ELSE TRUE
    IN  IF ~(s = powerOn \/ s = playerSequence)
        THEN [g |-> g, ret |-> FALSE]
        ELSE IF s # playerSequence
        THEN [g |-> g1, ret |-> TRUE]
        ELSE IF differs
        THEN [g |-> setState([g1 EXCEPT !.pressN = 0], mistake), ret |-> TRUE]
        ELSE IF g1.pressN = Len(g1.sequence)
        THEN [g |-> setState(g1, allCorrect), ret |-> TRUE]
        ELSE [g |-> g1, ret |-> TRUE]

\* a mistake restarts the game data instead of only the press counter
press_MistakeResets(g, btnI) ==
    LET s  == g.state
        g1 == [g EXCEPT !.pressN = g.pressN + 1]
        differs == IF g1.pressN - 1 < Len(g1.sequence)
                   THEN btnI # g1.sequence[g1.pressN]
                   ELSE TRUE
    IN  IF ~(s = powerOn \/ s = playerSequence)
        THEN [g |-> g, ret |-> FALSE]
        ELSE IF s # playerSequence
        THEN [g |-> g, ret |-> TRUE]
        ELSE IF differs
        THEN [g |-> setState([g1 EXCEPT !.pressN = 0, !.round = 0,
                                        !.sequence = <<>>], mistake),
              ret |-> TRUE]
        ELSE IF g1.pressN = Len(g1.sequence)
        THEN [g |-> setState(g1, allCorrect), ret |-> TRUE]
        ELSE [g |-> g1, ret |-> TRUE]

\* the end of the sequence is tested against the round before the last
press_EndOffByOne(g, btnI) ==
    LET s  == g.state
        g1 == [g EXCEPT !.pressN = g.pressN + 1]
        differs == IF g1.pressN - 1 < Len(g1.sequence)
                   THEN btnI # g1.sequence[g1.pressN]
                   ELSE TRUE
    IN  IF ~(s = powerOn \/ s = playerSequence)
        THEN [g |-> g, ret |-> FALSE]
        ELSE IF s # playerSequence
        THEN [g |-> g, ret |-> TRUE]
        ELSE IF differs
        THEN [g |-> setState([g1 EXCEPT !.pressN = 0], mistake), ret |-> TRUE]
        ELSE IF g1.pressN = Len(g1.sequence) - 1
        THEN [g |-> setState(g1, allCorrect), ret |-> TRUE]
        ELSE [g |-> g1, ret |-> TRUE]

\* a mistake does not put the press counter back to 0
press_KeepsCountOnMistake(g, btnI) ==
    LET s  == g.state
        g1 == [g EXCEPT !.pressN = g.pressN + 1]
        differs == IF g1.pressN - 1 < Len(g1.sequence)
                   THEN btnI # g1.sequence[g1.pressN]
                   ELSE TRUE
    IN  IF ~(s = powerOn \/ s = playerSequence)
        THEN [g |-> g, ret |-> FALSE]
        ELSE IF s # playerSequence
        THEN [g |-> g, ret |-> TRUE]
        ELSE IF differs
        THEN [g |-> setState(g1, mistake), ret |-> TRUE]
        ELSE IF g1.pressN = Len(g1.sequence)
        THEN [g |-> setState(g1, allCorrect), ret |-> TRUE]
        ELSE [g |-> g1, ret |-> TRUE]

(* press(btnI): the engine left behind and the value returned *)
press(g, btnI) ==
    LET s  == g.state
        g1 == [g EXCEPT !.pressN = g.pressN + 1]
        \* btnI != sequence[pressN - 1]; past the end the element is
        \* undefined, which no number equals
        differs == IF g1.pressN - 1 < Len(g1.sequence)
                   THEN btnI # g1.sequence[g1.pressN]
                   ELSE TRUE
    IN  IF ~(s = powerOn \/ s = playerSequence)
        THEN [g |-> g, ret |-> FALSE]
        ELSE IF s # playerSequence
        THEN [g |-> g, ret |-> TRUE]
        ELSE IF differs
        THEN [g |-> setState([g1 EXCEPT !.pressN = 0], mistake), ret |-> TRUE]
        ELSE IF g1.pressN = Len(g1.sequence)
        THEN [g |-> setState(g1, allCorrect), ret |-> TRUE]
        ELSE [g |-> g1, ret |-> TRUE]

(* reset() *)
reset(g) ==
    [g EXCEPT !.sequence = <<>>, !.round = 0, !.pressN = 0]

\* start() without the reset
start_NoReset(g, rnd) ==
    nextRound(g, rnd)

(* start() *)
start(g, rnd) ==
    nextRound(reset(g), rnd)

(* Variants of togglePower() with one slip each *)
\* the strict flag is cleared on power-on as well
togglePower_ClearsStrictOnPowerOn(g) ==
    IF g.state = powerOff
    THEN [reset(setState(g, powerOn)) EXCEPT !.strict = FALSE]
    ELSE [setState(g, powerOff) EXCEPT !.strict = FALSE]

\* the game data are reset on power-off as well
togglePower_ResetsOnPowerOff(g) ==
    IF g.state = powerOff
    THEN reset(setState(g, powerOn))
    ELSE [reset(setState(g, powerOff)) EXCEPT !.strict = FALSE]

(* togglePower() *)
togglePower(g) ==
    IF g.state = powerOff
    THEN reset(setState(g, powerOn))
    ELSE [setState(g, powerOff) EXCEPT !.strict = FALSE]

\* the flag is set instead of flipped
toggleStrict_Sets(g) ==
    [g EXCEPT !.strict = TRUE]

(* toggleStrict() *)
toggleStrict(g) ==
    [g EXCEPT !.strict = ~g.strict]

----------------------------------------------------------------------------
\* The engine's data become g
Commit(g) ==
    /\ state' = g.state
    /\ round' = g.round
    /\ pressN' = g.pressN
    /\ strict' = g.strict
    /\ sequence' = g.sequence

Init ==
    /\ state = powerOff
    /\ round = 0
    /\ pressN = 0
    /\ strict = FALSE
    /\ sequence = <<>>
    /\ op = [name |-> "init", arg |-> 0]
    /\ ret = <<>>
    /\ run = -1
    /\ timeoutStack = {}
    /\ comTimeoutMS = 0
    /\ lights = <<>>
    /\ strictAtMistake = FALSE
    /\ ev = [name |-> "init", arg |-> 0]

Call_start ==
    \E rnd \in RandomValues(<<>>) :
        /\ Commit(start(Game, rnd))
        /\ op' = [name |-> "start", arg |-> 0]
        /\ ret' = <<>>
        /\ run' = IF state = powerOff THEN 0 ELSE -1
        /\ UNCHANGED ctrlVars

Call_nextRound ==
    \E rnd \in RandomValues(sequence) :
        /\ Commit(nextRound(Game, rnd))
        /\ op' = [name |-> "nextRound", arg |-> 0]
        /\ ret' = <<>>
        /\ run' = IF run >= 0 /\ run < MAXROUND THEN run + 1 ELSE -1
        /\ UNCHANGED ctrlVars

Call_press ==
    \E btnI \in Buttons :
        LET r == press(Game, btnI)
        IN  /\ Commit(r.g)
            /\ op' = [name |-> "press", arg |-> btnI]
            /\ ret' = <<r.ret>>
            /\ run' = -1
            /\ UNCHANGED ctrlVars

Call_togglePower ==
    /\ Commit(togglePower(Game))
    /\ op' = [name |-> "togglePower", arg |-> 0]
    /\ ret' = <<>>
    /\ run' = -1
    /\ UNCHANGED ctrlVars

Call_toggleStrict ==
    /\ Commit(toggleStrict(Game))
    /\ op' = [name |-> "toggleStrict", arg |-> 0]
    /\ ret' = <<>>
    /\ run' = -1
    /\ UNCHANGED ctrlVars

Call_setState ==
    \E n \in SetStateArgs :
        /\ Commit(setState(Game, n))
        /\ op' = [name |-> "setState", arg |-> n]
        /\ ret' = <<>>
        /\ run' = -1
        /\ UNCHANGED ctrlVars

Next ==
    \/ Call_start
    \/ Call_nextRound
    \/ Call_press
    \/ Call_togglePower
    \/ Call_toggleStrict
    \/ Call_setState

Spec == Init /\ [][Next]_vars

----------------------------------------------------------------------------
TypeOK ==
    /\ state \in powerOff..win
    /\ round \in Nat
    /\ pressN \in Nat
    /\ strict \in BOOLEAN
    /\ sequence \in Seq(0..3)
    /\ run \in -1..MAXROUND

----------------------------------------------------------------------------
(* SimonController *)

(* CONFIG *)
startComTimeoutMS == 1100
speedIncrement    == 150
incrementRounds   == {5, 9, 13}

\* options.nextState left undefined
NoNextState == -1

\* The controller's data, the engine it drives and the last engine call
Ctrl ==
    [g |-> Game, op |-> op, timeoutStack |-> timeoutStack,
     comTimeoutMS |-> comTimeoutMS, lights |-> lights]

\* A callback handed to $timeout; stale is set when it outlives a reset
Callback(kind, arg) ==
    [kind |-> kind, arg |-> arg, stale |-> FALSE]

\* Calls of the engine's methods from the controller
sg_setState(c, n) ==
    [c EXCEPT !.g = setState(c.g, n), !.op = [name |-> "setState", arg |-> n]]

sg_nextRound(c, rnd) ==
    [c EXCEPT !.g = nextRound(c.g, rnd), !.op = [name |-> "nextRound", arg |-> 0]]

sg_press(c, i) ==
    [c EXCEPT !.g = press(c.g, i).g, !.op = [name |-> "press", arg |-> i]]

sg_start(c, rnd) ==
    [c EXCEPT !.g = start(c.g, rnd), !.op = [name |-> "start", arg |-> 0]]

sg_togglePower(c) ==
    [c EXCEPT !.g = togglePower(c.g), !.op = [name |-> "togglePower", arg |-> 0]]

sg_toggleStrict(c) ==
    [c EXCEPT !.g = toggleStrict(c.g), !.op = [name |-> "toggleStrict", arg |-> 0]]

(* timeout(func, ms) *)
timeout(c, cb) ==
    [c EXCEPT !.timeoutStack = @ \cup {cb}]

\* only the light-off callbacks are cancelled
clearTimeouts_LightOffOnly(c) ==
    [c EXCEPT !.timeoutStack = {cb \in @ : cb.kind # "lightOff"}]

(* clearTimeouts() *)
clearTimeouts(c) ==
    [c EXCEPT !.timeoutStack = {}]

(* getPowerState() *)
getPowerState(c) ==
    c.g.state # powerOff

(* incrementSpeed() *)
incrementSpeed(c) ==
    IF c.g.round \in incrementRounds
    THEN [c EXCEPT !.comTimeoutMS = @ - speedIncrement]
    ELSE c

(* lightColor(i, ms, options): light button i, schedule the light-off *)
lightColor(c, i, nextState) ==
    timeout([c EXCEPT !.lights = Append(@, i)],
            Callback("lightOff", nextState))

\* the playback stops one element early
lightSequence_SkipsLast(c, i) ==
    LET seq == c.g.sequence
    IN  IF i < Len(seq) - 2
        THEN timeout(lightColor(c, seq[i + 1], NoNextState),
                     Callback("lightSequence", i + 1))
        ELSE IF i <= Len(seq) - 1
        THEN lightColor(c, seq[i + 1], playerSequence)
        ELSE c

(* lightSequence(seq, lightMS, timeoutMS, i); seq is the engine's array *)
lightSequence(c, i) ==
    LET seq == c.g.sequence
    IN  IF i < Len(seq) - 1
        THEN timeout(lightColor(c, seq[i + 1], NoNextState),
                     Callback("lightSequence", i + 1))
        ELSE IF i = Len(seq) - 1
        THEN lightColor(c, seq[i + 1], playerSequence)
        ELSE c

(* doComDemo() *)
doComDemo(c) ==
    lightSequence(c, 0)

(* reset() of the controller *)
ctrl_reset(c) ==
    LET c1 == clearTimeouts(c)
    IN  [c1 EXCEPT !.comTimeoutMS = startComTimeoutMS,
                   !.lights = <<>>,
                   !.timeoutStack = {[cb EXCEPT !.stale = TRUE] : cb \in @}]

(* SimonController.start() *)
ctrl_start(c, rnd) ==
    IF getPowerState(c)
    THEN doComDemo(sg_start(ctrl_reset(c), rnd))
    ELSE c

(* SimonController.togglePower() *)
ctrl_togglePower(c) ==
    ctrl_reset(sg_togglePower(c))

\* toggleStrict without the power guard
ctrl_toggleStrict_NoGuard(c) ==
    sg_toggleStrict(c)

(* SimonController.toggleStrict() *)
ctrl_toggleStrict(c) ==
    IF getPowerState(c) THEN sg_toggleStrict(c) ELSE c

\* the second pass schedules another pass instead of the restart
ctrl_win_NeverRestarts(c, second) ==
    LET c1 == [c EXCEPT !.lights = Append(@, 1)]
        c2 == timeout(timeout(timeout(timeout(c1,
                  Callback("winLight", 2)), Callback("winLight", 3)),
                  Callback("winLight", 0)), Callback("winOff", 0))
    IN  timeout(c2, Callback("win", 0))

(* win(second) *)
ctrl_win(c, second) ==
    LET c1 == [c EXCEPT !.lights = Append(@, 1)]
        c2 == timeout(timeout(timeout(timeout(c1,
                  Callback("winLight", 2)), Callback("winLight", 3)),
                  Callback("winLight", 0)), Callback("winOff", 0))
    IN  IF ~second
        THEN timeout(c2, Callback("win", 0))
        ELSE timeout(c2, Callback("start", 0))

(* the callback lightColor schedules *)
lightOffCallback(c, nextState) ==
    IF nextState # NoNextState THEN sg_setState(c, nextState) ELSE c

(* the callback pressColor schedules after allCorrect *)
nextRoundCallback(c, rnd) ==
    LET c1 == incrementSpeed(sg_nextRound(c, rnd))
    IN  IF c1.g.state = comDemo
        THEN doComDemo(c1)
        ELSE IF c1.g.state = win
        THEN ctrl_win(c1, FALSE)
        ELSE c1

\* the recovery always resumes the demo
mistakeCallback_AlwaysResumes(c, rnd) ==
    doComDemo(sg_setState(c, comDemo))

\* the lenient recovery replays the demo without leaving mistake
mistakeCallback_NoSetState(c, rnd) ==
    IF c.g.strict
    THEN ctrl_start(c, rnd)
    ELSE doComDemo(c)

(* the callback pressColor schedules after mistake *)
mistakeCallback(c, rnd) ==
    IF c.g.strict
    THEN ctrl_start(c, rnd)
    ELSE doComDemo(sg_setState(c, comDemo))

(* SimonController.pressColor(i) *)
pressColor(c, i) ==
    LET c1 == sg_press(c, i)
    IN  IF ~press(c.g, i).ret
        THEN c1
        ELSE IF c1.g.state = allCorrect
        THEN timeout(lightColor(c1, i, NoNextState), Callback("nextRound", 0))
        ELSE IF c1.g.state = mistake
        THEN timeout(lightColor(c1, i, NoNextState), Callback("mistake", 0))
        ELSE lightColor(c1, i, NoNextState)

----------------------------------------------------------------------------
\* The controller's and the engine's data become c after the event e
CommitCtrl(c, e) ==
    /\ Commit(c.g)
    /\ op' = c.op
    /\ timeoutStack' = c.timeoutStack
    /\ comTimeoutMS' = c.comTimeoutMS
    /\ lights' = IF c.g.state = comDemo THEN c.lights ELSE <<>>
    /\ strictAtMistake' = IF c.g.state # mistake THEN FALSE
                          ELSE IF state # mistake THEN c.g.strict
                          ELSE strictAtMistake
    /\ ev' = e
    /\ run' = -1

\* The controller with callback cb taken off the pending ones
Fired(cb) ==
    [Ctrl EXCEPT !.timeoutStack = @ \ {cb}]

Pending(kind) ==
    {cb \in timeoutStack : cb.kind = kind}

\* ev.arg of a user call: how many callbacks were pending when it came
User(name) ==
    [name |-> name, arg |-> Cardinality(timeoutStack)]

User_togglePower ==
    /\ CommitCtrl(ctrl_togglePower(Ctrl), User("togglePower"))
    /\ ret' = <<>>

User_toggleStrict ==
    /\ CommitCtrl(ctrl_toggleStrict(Ctrl), User("toggleStrict"))
    /\ ret' = <<>>

User_start ==
    \E rnd \in RandomValues(<<>>) :
        /\ CommitCtrl(ctrl_start(Ctrl, rnd), User("start"))
        /\ ret' = <<>>

User_pressColor ==
    \E i \in Buttons :
        /\ CommitCtrl(pressColor(Ctrl, i), [name |-> "pressColor", arg |-> i])
        /\ ret' = <<press(Game, i).ret>>

Fire_lightOff ==
    \E cb \in Pending("lightOff") :
        /\ CommitCtrl(lightOffCallback(Fired(cb), cb.arg),
                      [name |-> "fire lightOff", arg |-> cb.arg])
        /\ ret' = <<>>

Fire_lightSequence ==
    \E cb \in Pending("lightSequence") :
        /\ CommitCtrl(lightSequence(Fired(cb), cb.arg),
                      [name |-> "fire lightSequence", arg |-> cb.arg])
        /\ ret' = <<>>

Fire_nextRound ==
    \E cb \in Pending("nextRound") : \E rnd \in RandomValues(sequence) :
        /\ CommitCtrl(nextRoundCallback(Fired(cb), rnd),
                      [name |-> "fire nextRound", arg |-> 0])
        /\ ret' = <<>>

Fire_mistake ==
    \E cb \in Pending("mistake") : \E rnd \in RandomValues(<<>>) :
        \* ev.arg: the strict flag when the wrong press was registered
        /\ CommitCtrl(mistakeCallback(Fired(cb), rnd),
                      [name |-> "fire mistake",
                       arg |-> IF strictAtMistake THEN 1 ELSE 0])
        /\ ret' = <<>>

\* buttons[k].light()
Fire_winLight ==
    \E cb \in Pending("winLight") :
        /\ CommitCtrl([Fired(cb) EXCEPT !.lights = Append(@, cb.arg)],
                      [name |-> "fire winLight", arg |-> cb.arg])
        /\ ret' = <<>>

\* every btn.lit = false
Fire_winOff ==
    \E cb \in Pending("winOff") :
        /\ CommitCtrl(Fired(cb), [name |-> "fire winOff", arg |-> 0])
        /\ ret' = <<>>

\* win(true)
Fire_win ==
    \E cb \in Pending("win") :
        /\ CommitCtrl(ctrl_win(Fired(cb), TRUE), [name |-> "fire win", arg |-> 0])
        /\ ret' = <<>>

\* ctrl.start as the callback of win(true)
Fire_start ==
    \E cb \in Pending("start") : \E rnd \in RandomValues(<<>>) :
        /\ CommitCtrl(ctrl_start(Fired(cb), rnd),
                      [name |-> "fire start", arg |-> 0])
        /\ ret' = <<>>

Fire ==
    \/ Fire_lightOff
    \/ Fire_lightSequence
    \/ Fire_nextRound
    \/ Fire_mistake
    \/ Fire_winLight
    \/ Fire_winOff
    \/ Fire_win
    \/ Fire_start

NextCtrl ==
    \/ User_togglePower
    \/ User_toggleStrict
    \/ User_start
    \/ User_pressColor
    \/ Fire_lightOff
    \/ Fire_lightSequence
    \/ Fire_nextRound
    \/ Fire_mistake
    \/ Fire_winLight
    \/ Fire_winOff
    \/ Fire_win
    \/ Fire_start

\* $timeout runs every callback that is not cancelled
SpecCtrl == Init /\ [][NextCtrl]_vars /\ WF_vars(Fire)

\* A player who, once the power is on and the game started, neither toggles
\* the power nor restarts
Play_togglePower ==
    /\ state = powerOff
    /\ User_togglePower

Play_start ==
    /\ state = powerOn
    /\ User_start

NextPlay ==
    \/ Play_togglePower
    \/ Play_start
    \/ User_toggleStrict
    \/ User_pressColor
    \/ Fire_lightOff
    \/ Fire_lightSequence
    \/ Fire_nextRound
    \/ Fire_mistake
    \/ Fire_winLight
    \/ Fire_winOff
    \/ Fire_win
    \/ Fire_start

SpecPlay == Init /\ [][NextPlay]_vars /\ WF_vars(Fire)

TypeOKCtrl ==
    /\ TypeOK
    /\ \A cb \in timeoutStack :
           cb.kind \in {"lightOff", "lightSequence", "nextRound", "mistake",
                        "winLight", "winOff", "win", "start"}
    /\ comTimeoutMS \in {0, 1100, 950, 800, 650}
    /\ lights \in Seq(0..3)

----------------------------------------------------------------------------
(* Properties of the engine *)

Called(name) == op.name = name

\* C1: after every engine operation, in any sequence of calls from the
\* initial state, the length of the sequence equals the round counter.
C1_SequenceLengthIsRound ==
    Len(sequence) = round

\* A game was played for several rounds and the sequence grew with the round.
C1_Witness ==
    /\ Called("nextRound")
    /\ state = comDemo
    /\ round = 3
    /\ Len(sequence) = 3

\* C2: in every reachable engine state 0 <= round <= MAXROUND, however many
\* times nextRound() is repeated.
C2_RoundInRange ==
    /\ 0 <= round
    /\ round <= MAXROUND

\* nextRound() was called at the last round and the round stayed at MAXROUND.
C2_Witness ==
    /\ Called("nextRound")
    /\ state = win
    /\ round = MAXROUND

\* C3: from powerOff, start() and then 20 times nextRound() with nothing in
\* between ends in win with round 20 and a sequence of 20 elements; each of the
\* first 19 nextRound() calls ends in comDemo with the round one higher (the
\* n-th call leaves round n + 1), and the round never exceeds 20 on the way.
C3_StartThenTwentyRounds ==
    /\ run = 0 => (state = comDemo /\ round = 1 /\ Len(sequence) = 1)
    /\ run \in 1..(MAXROUND - 1) =>
           (state = comDemo /\ round = run + 1 /\ Len(sequence) = run + 1)
    /\ run = MAXROUND =>
           (state = win /\ round = MAXROUND /\ Len(sequence) = MAXROUND)
    /\ run >= 0 => round <= MAXROUND

\* The twentieth nextRound() after start() has been called.
C3_Witness ==
    /\ run = MAXROUND
    /\ Called("nextRound")
    /\ state = win

\* C4: in every state other than powerOn and playerSequence, press(i) returns
\* false for every button i and leaves state, round, sequence, press counter
\* and strict flag unchanged.
C4_PressRejected ==
    [][ (op'.name = "press" /\ state \notin {powerOn, playerSequence})
            => (/\ ret' = <<FALSE>>
                /\ UNCHANGED <<state, round, sequence, pressN, strict>>) ]_vars

\* A press during the demo of a running game was rejected.
C4_Witness ==
    /\ Called("press")
    /\ ret = <<FALSE>>
    /\ state = comDemo
    /\ round > 0

\* C5: in state powerOn, press(i) returns true for every button i and leaves
\* state, round, sequence and press counter unchanged, also when an earlier
\* game left a non-empty sequence or a non-zero press counter behind.
C5_TestPress ==
    [][ (op'.name = "press" /\ state = powerOn)
            => (/\ ret' = <<TRUE>>
                /\ UNCHANGED <<state, round, sequence, pressN>>) ]_vars

\* A test press in powerOn with the data of an earlier game still there.
C5_Witness ==
    /\ Called("press")
    /\ ret = <<TRUE>>
    /\ state = powerOn
    /\ Len(sequence) > 1
    /\ pressN > 0

\* C6: in state playerSequence with press counter p, press(i) with i different
\* from sequence[p] (an element past the end differs from every i) returns
\* true, sets the press counter to 0 and the state to mistake, and leaves
\* round and sequence unchanged.
C6_WrongPress ==
    [][ (/\ op'.name = "press"
         /\ state = playerSequence
         /\ (pressN < Len(sequence) => op'.arg # sequence[pressN + 1]))
            => (/\ ret' = <<TRUE>>
                /\ pressN' = 0
                /\ state' = mistake
                /\ UNCHANGED <<round, sequence>>) ]_vars

\* A press in a game of at least two rounds was registered as a mistake.
C6_Witness ==
    /\ Called("press")
    /\ ret = <<TRUE>>
    /\ state = mistake
    /\ pressN = 0
    /\ round >= 2

\* C7: in state playerSequence with press counter p < sequence length,
\* press(i) with i equal to sequence[p] returns true, makes the press counter
\* p + 1, moves to allCorrect exactly when p + 1 is the sequence length and
\* stays in playerSequence otherwise, and leaves round and sequence unchanged.
C7_RightPress ==
    [][ (/\ op'.name = "press"
         /\ state = playerSequence
         /\ pressN < Len(sequence)
         /\ op'.arg = sequence[pressN + 1])
            => (/\ ret' = <<TRUE>>
                /\ pressN' = pressN + 1
                /\ state' = IF pressN + 1 = Len(sequence)
                            THEN allCorrect ELSE playerSequence
                /\ UNCHANGED <<round, sequence>>) ]_vars

\* The last of three presses completed the sequence of round 3.
C7_Witness ==
    /\ Called("press")
    /\ ret = <<TRUE>>
    /\ state = allCorrect
    /\ round = 3
    /\ pressN = 3
    /\ op.arg = sequence[3]

\* C8: after every engine operation, in any sequence of calls including
\* arbitrary setState(n) and press(i) with i in 0..3, the press counter
\* satisfies 0 <= pressN <= sequence length.
C8_PressCounterInRange ==
    /\ 0 <= pressN
    /\ pressN <= Len(sequence)

\* A press came when the counter was already at the end of the sequence
\* (the state was set back to playerSequence after allCorrect).
C8_Witness ==
    /\ Called("press")
    /\ state = mistake
    /\ pressN = 0
    /\ Len(sequence) = 1
    /\ ret = <<TRUE>>

\* C9: togglePower() in state powerOff moves to powerOn with round 0, an
\* empty sequence and press counter 0, and leaves the strict flag as it was.
C9_PowerOnResets ==
    [][ (op'.name = "togglePower" /\ state = powerOff)
            => (/\ state' = powerOn
                /\ round' = 0
                /\ sequence' = <<>>
                /\ pressN' = 0
                /\ strict' = strict) ]_vars

\* Power was switched on with the strict flag set.
C9_Witness ==
    /\ Called("togglePower")
    /\ state = powerOn
    /\ strict = TRUE
    /\ round = 0

\* C10: togglePower() in any state other than powerOff moves to powerOff and
\* makes the strict flag false whatever it was, and leaves round, sequence and
\* press counter unchanged.
C10_PowerOffKeepsData ==
    [][ (op'.name = "togglePower" /\ state # powerOff)
            => (/\ state' = powerOff
                /\ strict' = FALSE
                /\ UNCHANGED <<round, sequence, pressN>>) ]_vars

\* Power was switched off in the middle of a round; its data are still there.
C10_Witness ==
    /\ Called("togglePower")
    /\ state = powerOff
    /\ strict = FALSE
    /\ round >= 2
    /\ pressN >= 1

\* C11: toggleStrict() is permitted in every state (powerOff included), flips
\* the strict flag and leaves state, round, sequence and press counter
\* unchanged; only togglePower() and toggleStrict() ever write the flag, so an
\* even number of toggleStrict() calls with no togglePower() in between
\* restores the flag.
C11_ToggleStrictFlipsOnly ==
    [][ /\ (op'.name = "toggleStrict"
                => (/\ strict' = ~strict
                    /\ UNCHANGED <<state, round, sequence, pressN>>))
        /\ (op'.name \in {"start", "nextRound", "press", "setState"}
                => strict' = strict) ]_vars

\* The flag was switched back off by toggleStrict() while the power was off.
C11_Witness ==
    /\ Called("toggleStrict")
    /\ state = powerOff
    /\ strict = FALSE
    /\ round >= 1

\* C12: setState(n) with an integer n outside 0..8 leaves the state and all
\* other data unchanged, with n in 0..8 it makes the state n from any state
\* and changes nothing else; the state is always one of the 9 enum values.
C12_SetStateBoundsChecked ==
    [][ /\ (op'.name = "setState"
                => (/\ state' = IF op'.arg \in powerOff..win
                                THEN op'.arg ELSE state
                    /\ UNCHANGED <<round, sequence, pressN, strict>>))
        /\ state' \in powerOff..win ]_vars

\* An out-of-range setState left a running game in playerSequence.
C12_Witness ==
    /\ Called("setState")
    /\ op.arg \notin powerOff..win
    /\ state = playerSequence
    /\ round >= 1

\* C13: nextRound() in any state makes the press counter 0 and then: with
\* round = MAXROUND the state becomes win, round and sequence unchanged;
\* otherwise round grows by 1, one value of 0..3 is appended to the sequence,
\* whose earlier elements stay as a prefix, and the state becomes comDemo.
C13_NextRound ==
    [][ op'.name = "nextRound"
            => (/\ pressN' = 0
                /\ IF round = MAXROUND
                   THEN /\ state' = win
                        /\ UNCHANGED <<round, sequence>>
                   ELSE /\ round' = round + 1
                        /\ Len(sequence') = Len(sequence) + 1
                        /\ SubSeq(sequence', 1, Len(sequence)) = sequence
                        /\ sequence'[Len(sequence')] \in 0..3
                        /\ state' = comDemo) ]_vars

\* nextRound() extended a sequence of three elements by a fourth and kept
\* the first three in place.
C13_Witness ==
    /\ Called("nextRound")
    /\ state = comDemo
    /\ round = 4
    /\ pressN = 0
    /\ sequence[1] # sequence[4]

\* C14: start() in any engine state ends with round 1, a sequence of exactly
\* one element, press counter 0 and state comDemo, never win, and leaves the
\* strict flag unchanged.
C14_StartBeginsRoundOne ==
    [][ op'.name = "start"
            => (/\ round' = 1
                /\ Len(sequence') = 1
                /\ pressN' = 0
                /\ state' = comDemo
                /\ strict' = strict) ]_vars

\* start() was called with the strict flag set.
C14_Witness ==
    /\ Called("start")
    /\ state = comDemo
    /\ round = 1
    /\ strict = TRUE

----------------------------------------------------------------------------
(* Properties of the controller *)

Happened(name) == ev.name = name

IsPrefix(p, q) ==
    /\ Len(p) <= Len(q)
    /\ SubSeq(q, 1, Len(p)) = p

\* C15 as claimed: the recovery after a mistake (strict: the full restart by
\* start(); lenient: setState(comDemo) and the demo again) follows the value
\* the strict flag had when the wrong press was registered.
C15_RecoveryByFlagAtMistake ==
    [][ ev'.name = "fire mistake"
            => (op'.name = "start" <=> strictAtMistake) ]_vars

\* C15 as amended: the recovery follows the value the strict flag has when the
\* recovery callback fires, whatever it was when the wrong press was
\* registered.
C15_RecoveryByFlagAtFiring ==
    [][ ev'.name = "fire mistake"
            => IF strict
               THEN op'.name = "start" /\ round' = 1
               ELSE /\ op' = [name |-> "setState", arg |-> comDemo]
                    /\ UNCHANGED <<round, sequence>> ]_vars

\* The game was restarted after a mistake made while the flag was off: the
\* flag was switched on before the callback fired.
C15_Witness ==
    /\ Happened("fire mistake")
    /\ ev.arg = 0
    /\ op.name = "start"
    /\ strict = TRUE
    /\ state = comDemo

\* C16: togglePower() and start() (while powered on) of the controller cancel
\* every callback scheduled before them: no callback that was scheduled
\* before the last reset is pending, none at all is pending right after
\* togglePower() nor while the engine is in powerOff, so the engine stays in
\* powerOff until the next user call.
C16_ResetCancelsCallbacks ==
    /\ \A cb \in timeoutStack : ~cb.stale
    /\ Happened("togglePower") => timeoutStack = {}
    /\ state = powerOff => timeoutStack = {}

\* The power was switched off while two callbacks or more were pending.
C16_Witness ==
    /\ Happened("togglePower")
    /\ ev.arg >= 2
    /\ state = powerOff
    /\ round >= 2
    /\ timeoutStack = {}

\* C17: when the recovery callback fires with the strict flag set, the game
\* restarts: round 1, a new sequence of one element, state comDemo; with the
\* flag clear, round and sequence are unchanged, the state becomes comDemo and
\* the press counter is 0, so the sequence is entered again from its start.
C17_RecoveryEffect ==
    [][ ev'.name = "fire mistake"
            => (/\ state' = comDemo
                /\ pressN' = 0
                /\ strict' = strict
                /\ IF strict
                   THEN /\ round' = 1
                        /\ Len(sequence') = 1
                        /\ op'.name = "start"
                   ELSE UNCHANGED <<round, sequence>>) ]_vars

\* A lenient recovery in round 3 or later: the demo of the same round again.
C17_Witness ==
    /\ Happened("fire mistake")
    /\ op.name = "setState"
    /\ strict = FALSE
    /\ state = comDemo
    /\ round >= 3
    /\ pressN = 0

\* C18: for a player who neither toggles the power nor restarts during the
\* game: once the engine is in comDemo, the state eventually becomes
\* playerSequence;
\* it does so by the last light-off callback, when the buttons lit since the
\* demo began are exactly the sequence, in order, and the press counter is 0;
\* during the demo the lit buttons are a prefix of the sequence and every
\* press is rejected and changes nothing.
C18_DemoPlaysSequence ==
    /\ (state = comDemo) ~> (state = playerSequence)
    /\ [][ /\ (state = comDemo /\ state' = playerSequence)
                  => (/\ ev'.name = "fire lightOff"
                      /\ lights = sequence
                      /\ pressN' = 0)
           /\ state' = comDemo => IsPrefix(lights', sequence')
           /\ (ev'.name = "pressColor" /\ state = comDemo)
                  => (/\ ret' = <<FALSE>>
                      /\ UNCHANGED <<state, round, sequence, pressN,
                                     strict, timeoutStack>>) ]_vars

\* The demo of a round of three or more elements has just ended.
C18_Witness ==
    /\ Happened("fire lightOff")
    /\ ev.arg = playerSequence
    /\ state = playerSequence
    /\ round >= 3
    /\ pressN = 0

\* C19: through the controller the strict flag is false whenever the engine
\* is in powerOff, and toggleStrict() and start() of the controller change
\* nothing while the engine is in powerOff.
C19_StrictOffWhenPoweredOff ==
    /\ [](state = powerOff => strict = FALSE)
    /\ [][ (ev'.name \in {"toggleStrict", "start"} /\ state = powerOff)
               => UNCHANGED <<state, round, sequence, pressN, strict,
                              timeoutStack, comTimeoutMS>> ]_vars

\* toggleStrict() was called with the power switched off after a game.
C19_Witness ==
    /\ Happened("toggleStrict")
    /\ state = powerOff
    /\ strict = FALSE
    /\ round >= 1

\* C20: for a player who neither toggles the power nor restarts during the
\* game, allCorrect is eventually followed by comDemo: the nextRound callback
\* leaves comDemo with the round one higher and the sequence one element
\* longer when round < MAXROUND, and win when round = MAXROUND, which is
\* eventually followed by comDemo in round 1, by the restart the controller
\* schedules.
C20_AllCorrectLeadsToDemo ==
    /\ (state = allCorrect) ~> (state = comDemo)
    /\ (state = win) ~> (state = comDemo /\ round = 1)
    /\ [][ /\ (state = allCorrect /\ state' # allCorrect)
                  => ev'.name = "fire nextRound"
           /\ (ev'.name = "fire nextRound" /\ state = allCorrect)
                  => IF round < MAXROUND
                     THEN /\ state' = comDemo
                          /\ round' = round + 1
                          /\ Len(sequence') = Len(sequence) + 1
                          /\ IsPrefix(sequence, sequence')
                     ELSE /\ state' = win
                          /\ UNCHANGED <<round, sequence>>
           /\ (state = win /\ state' # win)
                  => (/\ ev'.name = "fire start"
                      /\ state' = comDemo
                      /\ round' = 1) ]_vars

\* The game restarted by itself after the win.
C20_Witness ==
    /\ Happened("fire start")
    /\ state = comDemo
    /\ round = 1
    /\ Len(sequence) = 1

====
